---- MODULE Spec2Model ----
(***************************************************************************)
(* A model of vlam: 2D radiance cascades over an analytic tracer of        *)
(* refractive circles or a voxel grid tracer.                              *)
(*                                                                         *)
(* Numbers.  The program computes in f32.  The model computes in exact     *)
(* rationals <<n, d>> (d > 0, lowest terms), so that every equation it     *)
(* checks is an equation of the real-number formulas the code writes.      *)
(* exp(-x) is taken to base 2 (opacities are measured in units of ln 2),   *)
(* which keeps transmittances rational; sqrt is exact on the perfect       *)
(* squares the chosen inputs produce.                                      *)
(***************************************************************************)
EXTENDS Integers, Sequences, FiniteSets, TLC

VARIABLES
    ov,     \* FluenceExpr::over applied to three fluences (main.rs:45-52)
    ix,     \* a CascadeStorage configuration and a call of index on it
    bl,     \* a CascadeStorage under add_bilinear and get_bilinear
    an,     \* an AnalyticTracer, a ray, and a call of trace_once or trace
    fr,     \* the frame loop: storages, accumulation, counter, pixel tasks
    vx,     \* a VoxelTracer, its grid and acceleration cache, a call of trace
    ct,     \* the construction of a VoxelTracer from a size
    sl      \* one level of the angle selection of trace_kernel

vars == <<ov, ix, bl, an, fr, vx, ct, sl>>

\* What the operations of one component leave alone: the other components.
notOv == <<ix, bl, an, fr, vx, ct, sl>>
notIx == <<ov, bl, an, fr, vx, ct, sl>>
notBl == <<ov, ix, an, fr, vx, ct, sl>>
notAn == <<ov, ix, bl, fr, vx, ct, sl>>
notFr == <<ov, ix, bl, an, vx, ct, sl>>
notVx == <<ov, ix, bl, an, fr, ct, sl>>
notCt == <<ov, ix, bl, an, fr, vx, sl>>
notSl == <<ov, ix, bl, an, fr, vx, ct>>

(***************************************************************************)
(* Exact rational arithmetic                                               *)
(***************************************************************************)
Abs(n) == IF n < 0 THEN -n ELSE n

RECURSIVE GCD(_, _)
GCD(a, b) == IF b = 0 THEN (IF a = 0 THEN 1 ELSE a) ELSE GCD(b, a % b)

\* A pair <<n, d>> in lowest terms; <<1, 0>> and <<-1, 0>> are the
\* infinities of f32 and <<0, 0>> its NaN, which sums and products propagate.
Rat(n, d) ==
    LET s == IF d < 0 THEN -1 ELSE 1
        g == GCD(Abs(n), Abs(d))
    IN  <<(s * n) \div g, (s * d) \div g>>

RInt(n) == <<n, 1>>
RZero == <<0, 1>>
ROne == <<1, 1>>
RHalf == <<1, 2>>
RNeg(a) == <<-a[1], a[2]>>
\* Sums over the least common denominator and products reduced crosswise
\* first keep the intermediate integers small.
RAdd(a, b) ==
    LET g == GCD(a[2], b[2])
    IN  Rat(a[1] * (b[2] \div g) + b[1] * (a[2] \div g), (a[2] \div g) * b[2])
RSub(a, b) == RAdd(a, RNeg(b))
RMul(a, b) ==
    LET g == GCD(Abs(a[1]), b[2])
        h == GCD(Abs(b[1]), a[2])
    IN  Rat((a[1] \div g) * (b[1] \div h), (a[2] \div h) * (b[2] \div g))
RDiv(a, b) == RMul(a, Rat(b[2], b[1]))
RLt(a, b) == a[1] * b[2] < b[1] * a[2]
RLe(a, b) == a[1] * b[2] <= b[1] * a[2]
RMin(a, b) == IF RLt(b, a) THEN b ELSE a
RMax(a, b) == IF RLt(a, b) THEN b ELSE a
RFloor(a) == a[1] \div a[2]
RFract(a) == RSub(a, RInt(RFloor(a)))
RClamp(a, lo, hi) == RMin(RMax(a, lo), hi)
RSignum(a) == IF a[1] > 0 THEN 1 ELSE IF a[1] < 0 THEN -1 ELSE 0

Pow2(k) == 2 ^ k

\* f32::INFINITY: greater than every rational under RLt.
RInf == <<1, 0>>

\* The square root, defined on the squares of rationals.
ISqrt(n) == CHOOSE k \in 0..n : k * k = n
RSqrt(a) == <<ISqrt(a[1]), ISqrt(a[2])>>
RSqr(a) == RMul(a, a)

\* exp(-x), to base 2: defined where x is a natural number.
ExpNeg(x) == IF x[2] = 1 /\ x[1] >= 0 THEN <<1, Pow2(x[1])>>
             ELSE CHOOSE r \in {} : TRUE

(***************************************************************************)
(* Vec3<f32>, componentwise                                                *)
(***************************************************************************)
V3(a, b, c) == <<a, b, c>>
Splat3(a) == <<a, a, a>>
V3Add(u, v) == <<RAdd(u[1], v[1]), RAdd(u[2], v[2]), RAdd(u[3], v[3])>>
V3Sub(u, v) == <<RSub(u[1], v[1]), RSub(u[2], v[2]), RSub(u[3], v[3])>>
V3Mul(u, v) == <<RMul(u[1], v[1]), RMul(u[2], v[2]), RMul(u[3], v[3])>>
V3Scale(u, s) == <<RMul(u[1], s), RMul(u[2], s), RMul(u[3], s)>>
V3DivS(u, s) == <<RDiv(u[1], s), RDiv(u[2], s), RDiv(u[3], s)>>

(***************************************************************************)
(* Vec2<f32>                                                               *)
(***************************************************************************)
V2Add(u, v) == <<RAdd(u[1], v[1]), RAdd(u[2], v[2])>>
V2Sub(u, v) == <<RSub(u[1], v[1]), RSub(u[2], v[2])>>
V2Scale(s, u) == <<RMul(s, u[1]), RMul(s, u[2])>>
V2Neg(u) == <<RNeg(u[1]), RNeg(u[2])>>
V2Dot(u, v) == RAdd(RMul(u[1], v[1]), RMul(u[2], v[2]))
V2Length(u) == RSqrt(V2Dot(u, u))
V2Normalize(u) == V2Scale(RDiv(ROne, V2Length(u)), u)

(***************************************************************************)
(* Fluence and Color (main.rs:25-91)                                       *)
(***************************************************************************)
Fluence(radiance, transmittance) ==
    [radiance |-> radiance, transmittance |-> transmittance]

FluenceEmpty == Fluence(Splat3(RZero), Splat3(ROne))

Color(emission, opacity) == [emission |-> emission, opacity |-> opacity]

ColorEmpty == Color(Splat3(RZero), Splat3(RZero))

\* A plausible slip: the near radiance inside the parenthesis.
OverMisplaced(self, far) ==
    Fluence(V3Mul(self.transmittance, V3Add(far.radiance, self.radiance)),
            V3Mul(self.transmittance, far.transmittance))

Over(self, far) ==
    Fluence(V3Add(V3Mul(self.transmittance, far.radiance), self.radiance),
            V3Mul(self.transmittance, far.transmittance))

OverRadiance(self, far) ==
    V3Add(V3Mul(self.transmittance, far), self.radiance)

\* A plausible slip: the segment emits in proportion to its length, whatever
\* its opacity.
ToFluenceEmissionOnly(color, segment_length) ==
    LET transmittance ==
            [i \in 1..3 |-> ExpNeg(RMul(color.opacity[i], segment_length))]
    IN  Fluence(V3Scale(color.emission, segment_length), transmittance)

ToFluence(color, segment_length) ==
    LET transmittance ==
            [i \in 1..3 |-> ExpNeg(RMul(color.opacity[i], segment_length))]
    IN  Fluence(V3Mul(color.emission, V3Sub(Splat3(ROne), transmittance)),
                transmittance)

(***************************************************************************)
(* over, applied both ways to three fluences                               *)
(***************************************************************************)
MaxRadiance == 2
TransmittanceDen == 2

GreyFluences ==
    { Fluence(Splat3(RInt(r)), Splat3(Rat(t, TransmittanceDen))) :
        r \in 0..MaxRadiance, t \in 0..TransmittanceDen }

\* The three fluences of the spec's example, and one that differs per channel.
ColouredFluences ==
    { Fluence(V3(ROne, RZero, RZero), Splat3(RHalf)),
      Fluence(V3(RZero, ROne, RZero), Splat3(RHalf)),
      Fluence(V3(RZero, RZero, ROne), Splat3(ROne)),
      Fluence(V3(RInt(2), RHalf, RZero), V3(Rat(1, 4), Rat(3, 4), ROne)) }

FluenceSamples == GreyFluences \cup ColouredFluences

OvIdle == [phase |-> "idle"]

OvInit ==
    \E a \in FluenceSamples, b \in FluenceSamples, c \in FluenceSamples :
        ov = [phase |-> "args", a |-> a, b |-> b, c |-> c,
              hasLeft |-> FALSE, left |-> FluenceEmpty,
              hasRight |-> FALSE, right |-> FluenceEmpty]

\* (A.over(B)).over(C)
OverLeft ==
    /\ ov.phase = "args"
    /\ ~ov.hasLeft
    /\ ov' = [ov EXCEPT !.hasLeft = TRUE,
                        !.left = Over(Over(ov.a, ov.b), ov.c)]
    /\ UNCHANGED notOv

\* A.over(B.over(C))
OverRight ==
    /\ ov.phase = "args"
    /\ ~ov.hasRight
    /\ ov' = [ov EXCEPT !.hasRight = TRUE,
                        !.right = Over(ov.a, Over(ov.b, ov.c))]
    /\ UNCHANGED notOv

(***************************************************************************)
(* CascadeStorage (main.rs:106-170), u32 arithmetic below 2^31             *)
(***************************************************************************)
Min(a, b) == IF b < a THEN b ELSE a
Max(a, b) == IF a < b THEN b ELSE a
ShiftR(a, k) == a \div Pow2(k)
ShiftL(a, k) == a * Pow2(k)

CascadeStorage(size, spacing, angles, scale, cascades, data) ==
    [base_size |-> size, base_spacing |-> spacing, base_angles |-> angles,
     angular_scale |-> scale, num_cascades |-> cascades, data |-> data]

CascadeSize(s) == s.base_size[1] * s.base_size[2] * s.base_angles

\* base_size >> cascade
SizeAt(s, cascade) ==
    <<ShiftR(s.base_size[1], cascade), ShiftR(s.base_size[2], cascade)>>

\* base_angles << (cascade * angular_scale)
AnglesAt(s, cascade) == ShiftL(s.base_angles, cascade * s.angular_scale)

\* A plausible slip: the row term without its factor of angles.
IndexNoRowStride(s, cascade, pos, angle) ==
    LET p == <<Min(pos[1], SizeAt(s, cascade)[1] - 1),
               Min(pos[2], SizeAt(s, cascade)[2] - 1)>>
        angles == AnglesAt(s, cascade)
    IN  cascade * CascadeSize(s)
            + p[1] * ShiftR(s.base_size[2], cascade) * angles
            + p[2]
            + angle

Index(s, cascade, pos, angle) ==
    LET p == <<Min(pos[1], SizeAt(s, cascade)[1] - 1),
               Min(pos[2], SizeAt(s, cascade)[2] - 1)>>
        angles == AnglesAt(s, cascade)
    IN  cascade * CascadeSize(s)
            + p[1] * ShiftR(s.base_size[2], cascade) * angles
            + p[2] * angles
            + angle

(***************************************************************************)
(* index, called on configurations of a storage                            *)
(***************************************************************************)
MaxBaseSize == 4
MaxBaseAngles == 2
MaxAngularScale == 3
MaxCascades == 3

\* Every cascade below num_cascades has at least one probe per axis.
EveryCascadeHasProbes(s) ==
    \A c \in 0..(s.num_cascades - 1) :
        SizeAt(s, c)[1] >= 1 /\ SizeAt(s, c)[2] >= 1

StorageConfigs ==
    { s \in { CascadeStorage(<<x, y>>, ROne, ba, as, nc, <<>>) :
                x \in 1..MaxBaseSize, y \in 1..MaxBaseSize,
                ba \in 1..MaxBaseAngles, as \in 0..MaxAngularScale,
                nc \in 1..MaxCascades } :
        EveryCascadeHasProbes(s) }

\* The (cascade, cell, angle) triples of a storage's valid range.
ValidCells(s, c) ==
    (0..(SizeAt(s, c)[1] - 1)) \X (0..(SizeAt(s, c)[2] - 1))

IxIdle == [phase |-> "idle"]

IxInit ==
    \E s \in StorageConfigs :
        ix = [phase |-> "config", s |-> s, cascade |-> 0, pos |-> <<0, 0>>,
              angle |-> 0, index |-> 0]

\* One call of index; the cell may lie one past the range, where it is clamped.
IndexCall ==
    /\ ix.phase = "config"
    /\ \E c \in 0..(ix.s.num_cascades - 1) :
       \E x \in 0..SizeAt(ix.s, c)[1], y \in 0..SizeAt(ix.s, c)[2] :
       \E a \in 0..(AnglesAt(ix.s, c) - 1) :
            ix' = [ix EXCEPT !.phase = "indexed", !.cascade = c,
                             !.pos = <<x, y>>, !.angle = a,
                             !.index = Index(ix.s, c, <<x, y>>, a)]
    /\ UNCHANGED notIx

(***************************************************************************)
(* Bilinear reads and scatters (main.rs:93-104, 127-169)                   *)
(***************************************************************************)
\* The four taps of a fractional probe position: <<cell, weight>>.
Bilinear(pos) ==
    LET f == <<RFract(pos[1]), RFract(pos[2])>>
        nf == <<RSub(ROne, f[1]), RSub(ROne, f[2])>>
        p == <<RFloor(pos[1]), RFloor(pos[2])>>
    IN  << <<p, RMul(nf[1], nf[2])>>,
           <<<<p[1] + 1, p[2]>>, RMul(f[1], nf[2])>>,
           <<<<p[1], p[2] + 1>>, RMul(nf[1], f[2])>>,
           <<<<p[1] + 1, p[2] + 1>>, RMul(f[1], f[2])>> >>

Get(s, cascade, pos, angle) == s.data[Index(s, cascade, pos, angle)]

ProbePosition(s, cascade, world_pos) ==
    LET spacing == RMul(s.base_spacing, RInt(ShiftL(1, cascade)))
        hi == <<RInt(SizeAt(s, cascade)[1] - 1), RInt(SizeAt(s, cascade)[2] - 1)>>
    IN  <<RClamp(RSub(RDiv(world_pos[1], spacing), RHalf), RZero, hi[1]),
          RClamp(RSub(RDiv(world_pos[2], spacing), RHalf), RZero, hi[2])>>

\* One tap's share of a bilinear read.
Term(s, cascade, tap, angle) == RMul(Get(s, cascade, tap[1], angle), tap[2])

WeightedSum(s, cascade, taps, angle) ==
    RAdd(RAdd(RAdd(Term(s, cascade, taps[1], angle), Term(s, cascade, taps[2], angle)),
              Term(s, cascade, taps[3], angle)),
         Term(s, cascade, taps[4], angle))

GetBilinear(s, cascade, pos, angle) ==
    WeightedSum(s, cascade, Bilinear(ProbePosition(s, cascade, pos)), angle)

\* A plausible slip: the value stored, not added to what is there.
AtomicFetchAddOverwrite(data, index, value) ==
    [data EXCEPT ![index] = value]

\* A plausible slip: the value taken off the entry.
AtomicFetchSub(data, index, value) ==
    [data EXCEPT ![index] = RSub(@, value)]

\* Buffer::atomic_fetch_add: one indivisible read-add-write of an entry.
AtomicFetchAdd(data, index, value) ==
    [data EXCEPT ![index] = RAdd(@, value)]

\* The storage's data after add.
Add(s, cascade, pos, angle, value) ==
    AtomicFetchAdd(s.data, Index(s, cascade, pos, angle), value)

\* The atomic adds of add_bilinear, in order: <<index, value>>.
BilinearAdds(s, cascade, pos, angle, value) ==
    LET taps == Bilinear(ProbePosition(s, cascade, pos))
    IN  [k \in 1..4 |-> <<Index(s, cascade, taps[k][1], angle),
                          RMul(value, taps[k][2])>>]

RECURSIVE ApplyAdds(_, _)
ApplyAdds(data, adds) ==
    IF adds = <<>> THEN data
    ELSE ApplyAdds(AtomicFetchAdd(data, Head(adds)[1], Head(adds)[2]), Tail(adds))

\* A plausible slip: every tap gets the whole value.
AddBilinearUnweighted(s, cascade, pos, angle, value) ==
    ApplyAdds(s.data, [k \in 1..4 |->
        <<BilinearAdds(s, cascade, pos, angle, value)[k][1], value>>])

\* The storage's data after add_bilinear.
AddBilinear(s, cascade, pos, angle, value) ==
    ApplyAdds(s.data, BilinearAdds(s, cascade, pos, angle, value))

(***************************************************************************)
(* add_bilinear, then get_bilinear, on a storage of zeros                  *)
(***************************************************************************)
BlBaseSize == 4
BlCascades == 2
PosDen == 4
MaxValue == 2

\* A storage of the program's shape (angular_scale 2) with every entry zero.
ZeroStorage ==
    LET s == CascadeStorage(<<BlBaseSize, BlBaseSize>>, ROne, 1, 2, BlCascades, <<>>)
    IN  [s EXCEPT !.data = [i \in 0..(BlCascades * CascadeSize(s) - 1) |-> RZero]]

\* World positions over the storage's extent, in steps of 1/PosDen.
WorldCoords == { Rat(k, PosDen) : k \in 0..(PosDen * BlBaseSize) }

BlIdle == [phase |-> "idle"]

BlInit ==
    bl = [phase |-> "zero", s |-> ZeroStorage, cascade |-> 0,
          pos |-> <<RZero, RZero>>, angle |-> 0, value |-> RZero,
          result |-> RZero]

BlAddBilinear ==
    /\ bl.phase = "zero"
    /\ \E c \in 0..(bl.s.num_cascades - 1) :
       \E x \in WorldCoords, y \in WorldCoords :
       \E a \in 0..(AnglesAt(bl.s, c) - 1), v \in 1..MaxValue :
            bl' = [bl EXCEPT
                     !.phase = "added", !.cascade = c, !.pos = <<x, y>>,
                     !.angle = a, !.value = RInt(v),
                     !.s.data = AddBilinear(bl.s, c, <<x, y>>, a, RInt(v))]
    /\ UNCHANGED notBl

\* get_bilinear with the cascade, position and angle of the add_bilinear.
BlGetBilinear ==
    /\ bl.phase = "added"
    /\ bl' = [bl EXCEPT
                !.phase = "read",
                !.result = GetBilinear(bl.s, bl.cascade, bl.pos, bl.angle)]
    /\ UNCHANGED notBl

\* The fractional part of the probe position of the call.
BlFract ==
    LET p == ProbePosition(bl.s, bl.cascade, bl.pos)
    IN  <<RFract(p[1]), RFract(p[2])>>

\* (1 - f)^2 + f^2: the sum of the squares of one axis's two weights.
SquaredWeights(f) ==
    RAdd(RMul(RSub(ROne, f), RSub(ROne, f)), RMul(f, f))

\* C2 (as claimed): on a storage of zeros, add_bilinear(c, p, a, v) followed
\* by get_bilinear(c, p, a) returns v, for every position p.
C2_GetAfterAddReturnsValue ==
    bl.phase = "read" => bl.result = bl.value

\* C2 (amended): it returns v times the sum of the squared tap weights,
\* ((1-fx)^2 + fx^2) * ((1-fy)^2 + fy^2) for the fractional part (fx, fy) of
\* the probe position: v where the probe position is integral on both axes,
\* and less than v elsewhere.
C2_GetAfterAddReturnsWeighted ==
    bl.phase = "read" =>
        /\ bl.result = RMul(bl.value, RMul(SquaredWeights(BlFract[1]),
                                           SquaredWeights(BlFract[2])))
        /\ (BlFract = <<RZero, RZero>>) => bl.result = bl.value
        /\ (BlFract # <<RZero, RZero>>) => RLt(bl.result, bl.value)

\* The value was scattered and read back at a probe position that is
\* fractional on both axes, in the coarser cascade.
C2_Witness ==
    /\ bl.phase = "read"
    /\ bl.cascade = 1
    /\ BlFract[1] # RZero /\ BlFract[2] # RZero
    /\ bl.result # RZero

(***************************************************************************)
(* AnalyticTracer (analytic.rs)                                            *)
(***************************************************************************)
Object(center, radius, refraction_index, color) ==
    [center |-> center, radius |-> radius,
     refraction_index |-> refraction_index, color |-> color]

RayHit(distance, normal, object, leaving) ==
    [distance |-> distance, normal |-> normal, object |-> object,
     leaving |-> leaving]

IntersectCircle(ray_start, ray_dir, radius) ==
    LET dist_to_parallel == RNeg(V2Dot(ray_start, ray_dir))
        min_point == V2Add(ray_start, V2Scale(dist_to_parallel, ray_dir))
        dist_to_center == V2Length(min_point)
        penetration == RSub(radius, dist_to_center)
    IN  IF RLt(penetration, RZero)
        THEN [min_t |-> RZero, max_t |-> RZero, penetration |-> penetration,
              hit |-> FALSE]
        ELSE LET dist_to_intersection ==
                     RSqrt(RSub(RSqr(radius), RSqr(dist_to_center)))
             IN  [min_t |-> RSub(dist_to_parallel, dist_to_intersection),
                  max_t |-> RAdd(dist_to_parallel, dist_to_intersection),
                  penetration |-> penetration, hit |-> TRUE]

\* The normal at ray parameter t on object's boundary.
NormalAt(object, pos, t, dir) ==
    V2Normalize(V2Sub(V2Add(pos, V2Scale(t, dir)), object.center))

\* A plausible slip: <= against the closest hit so far, so a later object
\* takes a tie.
TraceOnceVisitLastWins(closest_hit, objects, i, pos, start, dir) ==
    LET object == objects[i + 1]
        c == IntersectCircle(V2Sub(pos, object.center), dir, object.radius)
    IN  IF ~c.hit THEN closest_hit
        ELSE IF RLt(start, c.min_t) /\ RLe(c.min_t, closest_hit.distance)
        THEN RayHit(c.min_t, NormalAt(object, pos, c.min_t, dir), i, FALSE)
        ELSE IF RLt(start, c.max_t) /\ RLe(c.max_t, closest_hit.distance)
        THEN RayHit(c.max_t, NormalAt(object, pos, c.max_t, dir), i, TRUE)
        ELSE closest_hit

\* One iteration of trace_once's loop: object i (from 0) against the closest
\* hit so far.
TraceOnceVisit(closest_hit, objects, i, pos, start, dir) ==
    LET object == objects[i + 1]
        c == IntersectCircle(V2Sub(pos, object.center), dir, object.radius)
    IN  IF ~c.hit THEN closest_hit
        ELSE IF RLt(start, c.min_t) /\ RLt(c.min_t, closest_hit.distance)
        THEN RayHit(c.min_t, NormalAt(object, pos, c.min_t, dir), i, FALSE)
        ELSE IF RLt(start, c.max_t) /\ RLt(c.max_t, closest_hit.distance)
        THEN RayHit(c.max_t, NormalAt(object, pos, c.max_t, dir), i, TRUE)
        ELSE closest_hit

RECURSIVE TraceOnceFrom(_, _, _, _, _, _)
TraceOnceFrom(closest_hit, objects, i, pos, start, dir) ==
    IF i >= Len(objects) THEN closest_hit
    ELSE TraceOnceFrom(TraceOnceVisit(closest_hit, objects, i, pos, start, dir),
                       objects, i + 1, pos, start, dir)

NoHit == RayHit(RInf, <<RZero, RZero>>, 0, FALSE)

TraceOnce(objects, pos, start, dir) ==
    TraceOnceFrom(NoHit, objects, 0, pos, start, dir)

\* (pos - center).length() < radius, compared by the squares (radius > 0).
Contains(object, pos) ==
    RLt(V2Dot(V2Sub(pos, object.center), V2Sub(pos, object.center)),
        RSqr(object.radius))

\* trace's first loop: the medium of the last object that contains pos.
RECURSIVE MediumFrom(_, _, _, _)
MediumFrom(medium, objects, i, pos) ==
    IF i >= Len(objects) THEN medium
    ELSE MediumFrom(IF Contains(objects[i + 1], pos)
                    THEN [color |-> objects[i + 1].color,
                          refr_index |-> objects[i + 1].refraction_index]
                    ELSE medium,
                    objects, i + 1, pos)

\* The locals of trace as its main loop is entered.
TraceEnter(objects, pos, dir, len) ==
    LET medium == MediumFrom([color |-> ColorEmpty, refr_index |-> ROne],
                             objects, 0, pos)
    IN  [pos |-> pos, dir |-> dir, len |-> len, color |-> medium.color,
         refr_index |-> medium.refr_index, fluence |-> FluenceEmpty,
         done |-> FALSE, hit |-> NoHit, crossed |-> FALSE]

TraceEpsilon == Rat(1, 1000)

\* A plausible slip: the last segment composited, the position left behind.
FinalSegmentNoAdvance(t, hit) ==
    [t EXCEPT !.fluence = Over(t.fluence, ToFluence(t.color, t.len)),
              !.done = TRUE, !.hit = hit, !.crossed = FALSE]

\* hit.distance > len: the rest of the ray lies in the current medium.
FinalSegment(t, hit) ==
    [t EXCEPT !.pos = V2Add(t.pos, V2Scale(t.len, t.dir)),
              !.fluence = Over(t.fluence, ToFluence(t.color, t.len)),
              !.done = TRUE, !.hit = hit, !.crossed = FALSE]

\* The boundary at hit is crossed: the segment up to it is composited and the
\* ray refracted, or ended black when the sine reaches 1.
CrossBoundary(objects, t, hit) ==
    LET pos == V2Add(t.pos, V2Scale(hit.distance, t.dir))
        len == RSub(t.len, hit.distance)
        fluence == Over(t.fluence, ToFluence(t.color, hit.distance))
        normal == IF hit.leaving THEN hit.normal ELSE V2Neg(hit.normal)
        obj == objects[hit.object + 1]
        next_refr_index == IF hit.leaving THEN ROne ELSE obj.refraction_index
        angle == RDiv(RMul(RSqrt(RSub(ROne, RSqr(V2Dot(normal, t.dir)))),
                           t.refr_index),
                      next_refr_index)
        tangent == <<normal[2], RNeg(normal[1])>>
        sign == RInt(RSignum(V2Dot(t.dir, tangent)))
    IN  IF RLe(ROne, <<Abs(angle[1]), angle[2]>>)
        THEN [t EXCEPT !.pos = pos, !.len = len,
                       !.fluence = Over(fluence, Fluence(Splat3(RZero), Splat3(RZero))),
                       !.done = TRUE, !.hit = hit, !.crossed = FALSE]
        ELSE [t EXCEPT !.pos = pos, !.len = len, !.fluence = fluence,
                       !.dir = V2Add(V2Scale(RMul(angle, sign), tangent),
                                     V2Scale(RSqrt(RSub(ROne, RSqr(angle))), normal)),
                       !.refr_index = next_refr_index,
                       !.color = obj.color,
                       !.hit = hit, !.crossed = TRUE]

\* One iteration of trace's main loop.
TraceIteration(objects, t) ==
    LET hit == TraceOnce(objects, t.pos, TraceEpsilon, t.dir)
    IN  IF RLt(t.len, hit.distance) THEN FinalSegment(t, hit)
        ELSE CrossBoundary(objects, t, hit)

(***************************************************************************)
(* trace_once and trace, called on small scenes                            *)
(*                                                                         *)
(* Rays run along the x axis from lattice points; circles have radius 5    *)
(* and centres at height 0, 3, 5 or 6 (through the centre, a 3-4-5 chord,  *)
(* tangent, missed), which keeps every square root exact.  An object off   *)
(* the axis has refraction index 1.                                        *)
(***************************************************************************)
MaxObjects == 2

\* Emission 2, opacity 1 in every channel; and the transparent colour.
LitColor == Color(Splat3(RInt(2)), Splat3(ROne))

ObjectSamples ==
    { Object(<<RZero, RZero>>, RInt(5), ROne, LitColor),
      Object(<<RInt(10), RZero>>, RInt(5), Rat(3, 2), LitColor),
      Object(<<RInt(10), RZero>>, RInt(5), Rat(3, 2), ColorEmpty),
      Object(<<RZero, RInt(3)>>, RInt(5), ROne, LitColor),
      Object(<<RInt(10), RInt(5)>>, RInt(5), ROne, LitColor),
      Object(<<RZero, RInt(6)>>, RInt(5), ROne, LitColor) }

RECURSIVE SeqsUpTo(_, _)
SeqsUpTo(S, n) ==
    IF n = 0 THEN {<<>>}
    ELSE LET shorter == SeqsUpTo(S, n - 1)
         IN  shorter \cup { Append(q, x) : q \in shorter, x \in S }

Scenes == SeqsUpTo(ObjectSamples, MaxObjects)

RayStarts == { <<RInt(x), RZero>> : x \in {-8, 0, 5, 7} }
RayDirs == { <<ROne, RZero>>, <<RInt(-1), RZero>> }
\* Directions off the axis, for the tracer without objects.
ObliqueDirs == { <<RZero, ROne>>, <<Rat(3, 5), Rat(4, 5)>>, <<Rat(-4, 5), Rat(3, 5)>> }
RayLens == { RInt(3), RInt(24) }
StartParams == { TraceEpsilon, RZero, RInt(5), RInt(13) }

\* No two objects overlap (they may touch): the tracer's assumption.
NonOverlapping(objects) ==
    \A i, j \in 1..Len(objects) :
        i < j =>
            LET d == V2Sub(objects[i].center, objects[j].center)
            IN  RLe(RSqr(RAdd(objects[i].radius, objects[j].radius)), V2Dot(d, d))

AnIdle == [phase |-> "idle"]

AnInit ==
    \E objects \in Scenes, pos \in RayStarts, len \in RayLens :
    \E dir \in (IF objects = <<>> THEN RayDirs \cup ObliqueDirs ELSE RayDirs) :
        an = [phase |-> "args", objects |-> objects, pos |-> pos, dir |-> dir,
              len |-> len, start |-> RZero,
              t |-> [TraceEnter(<<>>, pos, dir, len) EXCEPT !.done = TRUE]]

\* trace_once(pos, start, dir)
AnTraceOnce ==
    /\ an.phase = "args"
    /\ \E start \in StartParams :
        an' = [an EXCEPT !.phase = "hit", !.start = start,
                         !.t.hit = TraceOnce(an.objects, an.pos, start, an.dir)]
    /\ UNCHANGED notAn

\* trace(pos, dir, len), up to its main loop.
AnTraceBegin ==
    /\ an.phase = "args"
    /\ NonOverlapping(an.objects)
    /\ an' = [an EXCEPT !.phase = "trace",
                        !.t = TraceEnter(an.objects, an.pos, an.dir, an.len)]
    /\ UNCHANGED notAn

\* One iteration of trace's main loop; at the break the TracedRay is in t.
AnTraceLoop ==
    /\ an.phase = "trace"
    /\ ~an.t.done
    /\ an' = [an EXCEPT !.t = TraceIteration(an.objects, an.t)]
    /\ UNCHANGED notAn

\* Every component but g at rest.
(***************************************************************************)
(* The frame loop (main.rs:186-187, 217-242, 252-317, 421-431)             *)
(*                                                                         *)
(* The display and the cascade count are scaled down; the angular layout   *)
(* (4 base angles, 4 children per angle) is the program's.  Values written *)
(* to a buffer are kept on a grid of 1/Grid, the model's stand-in for the  *)
(* finite precision of f32; additions of stored values are then exact.     *)
(***************************************************************************)
DISPLAY_SIZE == 2
MAX_ITERS == 2
BASE_ANGLES == 4
ANGULAR_SCALE == 2
NUM_CASCADES == 6
Grid == 100
RandDen == 2
NumPixels == 2

RECURSIVE Log2(_)
Log2(n) == IF n <= 1 THEN 0 ELSE 1 + Log2(n \div 2)

\* The program's cascade count, capped at what the scaled display has
\* probes for.
NumCascades == Min(NUM_CASCADES, Log2(DISPLAY_SIZE) + 1)

BufferLen == DISPLAY_SIZE * DISPLAY_SIZE * BASE_ANGLES * NumCascades

\* storage and next_storage share everything but their data.
StorageWith(data) ==
    CascadeStorage(<<DISPLAY_SIZE, DISPLAY_SIZE>>, ROne, BASE_ANGLES,
                   ANGULAR_SCALE, NumCascades, data)

\* A plausible slip: the buffers left at zero.
InitialDataZero == [i \in 0..(BufferLen - 1) |-> RZero]

InitialData == [i \in 0..(BufferLen - 1) |-> ROne]

\* A non-negative value as a buffer entry holds it: rounded down to the grid.
Store(x) ==
    Rat((x[1] \div x[2]) * Grid + ((x[1] % x[2]) * Grid) \div x[2], Grid)

Store3(v) == <<Store(v[1]), Store(v[2]), Store(v[3])>>

Luma(color) ==
    RAdd(RAdd(RMul(color[1], Rat(2126, 10000)), RMul(color[2], Rat(7152, 10000))),
         RMul(color[3], Rat(722, 10000)))

\* pcg3df(v).x: a fixed function of its argument into [0, 1].  The hash is
\* not computed here; salt picks one function out of a small family.
Pcg3df(salt, v) ==
    Rat((salt * (v[1] + 1) + 2 * v[2] + v[3]) % (RandDen + 1), RandDen)

\* The pixels of the dispatch, row by row from (0, 0).
PixelOf(k) == <<k % DISPLAY_SIZE, k \div DISPLAY_SIZE>>
Pixels == { PixelOf(k) : k \in 0..(NumPixels - 1) }

\* copy_storage over the whole buffer.
CopyStorage(next) ==
    [i \in DOMAIN next |-> Store(RAdd(RMul(next[i], RHalf), Rat(1, 100)))]

\* draw_kernel for one pixel.
DrawPixel(sum, iterations) == V3DivS(sum, RInt(iterations))

PixelCentre(pixel) == <<RAdd(RInt(pixel[1]), RHalf), RAdd(RInt(pixel[2]), RHalf)>>

\* What storage holds for the four children of an angle, at a pixel
\* (a Vec4: child k is component k + 1).
ChildWeights(s, pos, i, base) ==
    <<GetBilinear(s, i, pos, base + 0), GetBilinear(s, i, pos, base + 1),
      GetBilinear(s, i, pos, base + 2), GetBilinear(s, i, pos, base + 3)>>

\* weights / weights.reduce_sum().
ReduceSum(w) == RAdd(RAdd(RAdd(w[1], w[2]), w[3]), w[4])

Normalized(w) ==
    <<RDiv(w[1], ReduceSum(w)), RDiv(w[2], ReduceSum(w)),
      RDiv(w[3], ReduceSum(w)), RDiv(w[4], ReduceSum(w))>>

\* A plausible slip: <= in the comparisons, so a draw equal to a cumulative
\* weight takes the earlier child.
PickChildInclusive(rand, weights) ==
    IF RLe(rand, weights[1]) THEN 0
    ELSE IF RLe(rand, RAdd(weights[1], weights[2])) THEN 1
    ELSE IF RLe(rand, RAdd(RAdd(weights[1], weights[2]), weights[3])) THEN 2
    ELSE 3

\* The child j a random number picks.
PickChild(rand, weights) ==
    IF RLt(rand, weights[1]) THEN 0
    ELSE IF RLt(rand, RAdd(weights[1], weights[2])) THEN 1
    ELSE IF RLt(rand, RAdd(RAdd(weights[1], weights[2]), weights[3])) THEN 2
    ELSE 3

\* index and bias once child j of weight weights[j] is taken.
TakeChild(sel, weights, j) ==
    [index |-> sel.index * 4 + j,
     bias |-> RMul(sel.bias, RMul(RInt(4), weights[j + 1]))]

\* One level of the angle selection of trace_kernel.
SelectWith(sel, weights, rand) == TakeChild(sel, weights, PickChild(rand, weights))

SelectLevel(s, pos, i, sel, rand) ==
    SelectWith(sel, Normalized(ChildWeights(s, pos, i, sel.index * 4)), rand)

\* index and bias of a pixel task once levels 0..i have been selected.
RECURSIVE SelectUpTo(_, _, _, _, _)
SelectUpTo(s, salt, pixel, t, i) ==
    IF i < 0 THEN [index |-> 0, bias |-> ROne]
    ELSE SelectLevel(s, PixelCentre(pixel), i, SelectUpTo(s, salt, pixel, t, i - 1),
                     Pcg3df(salt, <<pixel[1], pixel[2], t * (s.num_cascades + 1) + i>>))

\* The angular index and the bias a pixel task draws from storage.
AngleSelection(s, salt, pixel, t) == SelectUpTo(s, salt, pixel, t, s.num_cascades - 1)

\* world.trace for segment i of the ray of a pixel task: the scene is not
\* traced here.  A world is the child angle in which its light lies; the
\* last segment of a ray of that angle ends on the light, every other
\* segment crosses haze.
LightFluence == Fluence(Splat3(ROne), Splat3(RZero))
HazeFluence == Fluence(Splat3(RZero), Splat3(RHalf))
WorldTrace(world, index, i) ==
    IF i = NumCascades - 1 /\ index % 4 = world THEN LightFluence ELSE HazeFluence

\* The radiance trace_kernel has composed, back to front, once level i is in.
RECURSIVE RadianceFrom(_, _, _)
RadianceFrom(world, index, i) ==
    IF i >= NumCascades THEN Splat3(RZero)
    ELSE OverRadiance(WorldTrace(world, index, i), RadianceFrom(world, index, i + 1))

\* The atomic adds trace_kernel issues from level i down, in order.
\* A plausible slip: the final index used at every level as it is.
ScatterAngleUnshifted(s, index, i) == index

\* The angular index at which level i is scattered into.
ScatterAngle(s, index, i) ==
    ShiftR(index, s.angular_scale * (s.num_cascades - 1 - i))

\* The angular indices of levels 0 .. num_cascades - 1 of a scatter.
ScatterAngles(s, index) ==
    [k \in 1..s.num_cascades |-> ScatterAngle(s, index, k - 1)]

RECURSIVE ScatterFrom(_, _, _, _, _)
ScatterFrom(s, world, pixel, sel, i) ==
    IF i < 0 THEN <<>>
    ELSE BilinearAdds(s, i, PixelCentre(pixel), ScatterAngle(s, sel.index, i),
                      Store(RDiv(Luma(RadianceFrom(world, sel.index, i)), sel.bias)))
         \o ScatterFrom(s, world, pixel, sel, i - 1)

\* The atomic adds into next_storage of a pixel task that has selected sel.
TaskAdds(world, pixel, sel) ==
    ScatterFrom(StorageWith(<<>>), world, pixel, sel, NumCascades - 1)

\* The sample the task has for its pixel of the display.
TaskSample(world, sel) ==
    Store3(V3DivS(RadianceFrom(world, sel.index, 0), sel.bias))

\* app.run's test before the trace pass, with the bound included.
MoreIterationsInclusive(iterations) == iterations <= MAX_ITERS

\* app.run's test before the trace pass.
MoreIterations(iterations) == iterations < MAX_ITERS

\* The counter left as it was.
IncrementSkipped(iterations) == iterations

\* iterations += 1.
Increment(iterations) == iterations + 1

Worlds == 0..3
Salts == 0..RandDen

\* A pixel task: where it is, what it selected, the adds it has left to
\* issue and its sample; all records every add it set out to issue, and
\* angles the angular index of each level's adds.
ReadyTask ==
    [pc |-> "ready", sel |-> [index |-> 0, bias |-> ROne], adds |-> <<>>,
     all |-> <<>>, angles |-> <<>>, sample |-> Splat3(RZero)]

FrIdle == [pc |-> "idle"]

\* The program as app.run is entered: both storages 1.0 everywhere, nothing
\* accumulated (the accumulation texture is taken to start at zero), no
\* frame drawn.  storage0, next0, samples and skipped record history, and
\* total what the tasks of the stages that have ended set out to add to
\* each entry.
FrInit ==
    \E salt \in Salts, world \in Worlds :
        fr = [pc |-> "callback", iterations |-> 0, t |-> 0,
              storage |-> InitialData, next_storage |-> InitialData,
              display |-> [p \in Pixels |-> Splat3(RZero)],
              screen |-> [p \in Pixels |-> Splat3(RZero)], divisor |-> 0,
              tasks |-> [p \in Pixels |-> ReadyTask],
              salt |-> salt, world |-> world,
              storage0 |-> InitialData, next0 |-> InitialData,
              samples |-> [p \in Pixels |-> 0], skipped |-> FALSE,
              total |-> [i \in 0..(BufferLen - 1) |-> RZero]]

\* The callback up to its first dispatch: the trace pass, or straight to
\* the draw.
FrameBegin ==
    /\ fr.pc = "callback"
    /\ IF MoreIterations(fr.iterations)
       THEN fr' = [fr EXCEPT !.pc = "trace", !.t = fr.iterations,
                             !.tasks = [p \in Pixels |-> ReadyTask],
                             !.storage0 = fr.storage,
                             !.next0 = fr.next_storage]
       ELSE fr' = [fr EXCEPT !.pc = "draw", !.skipped = TRUE]
    /\ UNCHANGED notFr

\* The angle selection of a pixel task: it reads storage.
TaskSelect ==
    /\ fr.pc = "trace"
    /\ \E p \in Pixels :
        /\ fr.tasks[p].pc = "ready"
        /\ fr' = [fr EXCEPT !.tasks[p].pc = "selected",
                            !.tasks[p].sel =
                                AngleSelection(StorageWith(fr.storage), fr.salt, p, fr.t)]
    /\ UNCHANGED notFr

\* The task traces its ray and composes what it will write.
TaskTrace ==
    /\ fr.pc = "trace"
    /\ \E p \in Pixels :
        /\ fr.tasks[p].pc = "selected"
        /\ fr' = [fr EXCEPT !.tasks[p].pc = "scatter",
                            !.tasks[p].adds = TaskAdds(fr.world, p, fr.tasks[p].sel),
                            !.tasks[p].all = TaskAdds(fr.world, p, fr.tasks[p].sel),
                            !.tasks[p].angles =
                                ScatterAngles(StorageWith(<<>>), fr.tasks[p].sel.index),
                            !.tasks[p].sample = TaskSample(fr.world, fr.tasks[p].sel)]
    /\ UNCHANGED notFr

\* The next atomic add of a pixel task.
TaskScatter ==
    /\ fr.pc = "trace"
    /\ \E p \in Pixels :
        /\ fr.tasks[p].pc = "scatter"
        /\ fr.tasks[p].adds # <<>>
        /\ fr' = [fr EXCEPT !.next_storage =
                                AtomicFetchAdd(@, Head(fr.tasks[p].adds)[1],
                                               Head(fr.tasks[p].adds)[2]),
                            !.tasks[p].adds = Tail(@)]
    /\ UNCHANGED notFr

\* The last write of a pixel task: its sample joins the pixel's sum.
TaskDisplay ==
    /\ fr.pc = "trace"
    /\ \E p \in Pixels :
        /\ fr.tasks[p].pc = "scatter"
        /\ fr.tasks[p].adds = <<>>
        /\ fr' = [fr EXCEPT !.display[p] = V3Add(@, fr.tasks[p].sample),
                            !.samples[p] = @ + 1,
                            !.tasks[p].pc = "done"]
    /\ UNCHANGED notFr

AllTasksDone == \A p \in Pixels : fr.tasks[p].pc = "done"

(***************************************************************************)
(* The trace/scatter stage against its sequential sum                      *)
(***************************************************************************)
\* What the first k adds of a list put into entry e, all told.
RECURSIVE SumAt(_, _, _)
SumAt(adds, e, k) ==
    IF k = 0 THEN RZero
    ELSE RAdd(SumAt(adds, e, k - 1),
              IF adds[k][1] = e THEN adds[k][2] ELSE RZero)

\* What the tasks k.. of the running stage set out to add to entry e.
RECURSIVE StageSum(_, _)
StageSum(e, k) ==
    IF k >= NumPixels THEN RZero
    ELSE RAdd(SumAt(fr.tasks[PixelOf(k)].all, e, Len(fr.tasks[PixelOf(k)].all)),
              StageSum(e, k + 1))

\* The trace pass is over; the host counts it.
IncrementIterations ==
    /\ fr.pc = "trace"
    /\ AllTasksDone
    /\ fr' = [fr EXCEPT !.pc = "copy", !.iterations = Increment(@),
                        !.total = [e \in DOMAIN fr.total |->
                                      RAdd(fr.total[e], StageSum(e, 0))]]
    /\ UNCHANGED notFr

\* The decay pass.
CopyStorageDispatch ==
    /\ fr.pc = "copy"
    /\ fr' = [fr EXCEPT !.pc = "draw", !.storage = CopyStorage(fr.next_storage)]
    /\ UNCHANGED notFr

\* The display pass, which ends the callback.
DrawDispatch ==
    /\ fr.pc = "draw"
    /\ fr' = [fr EXCEPT !.pc = "callback", !.divisor = fr.iterations,
                        !.screen = [p \in Pixels |->
                                        DrawPixel(fr.display[p], fr.iterations)]]
    /\ UNCHANGED notFr

(***************************************************************************)
(* The voxel tracer (voxel.rs:70-102, 123-145, 166-341; utils.rs:9-20)     *)
(*                                                                         *)
(* The grid, the blocks and f32::EPSILON are scaled.  pos and block_pos    *)
(* are u32 in the                                                          *)
(* program; the model keeps them as integers and marks a read outside a    *)
(* texture instead of wrapping.                                            *)
(***************************************************************************)
BLOCK_SIZE == 2
BlocksPerSide == 2
EpsilonDen == 256

F32Epsilon == Rat(1, EpsilonDen)
TRANSMITTANCE_CUTOFF == Rat(1, 1000)

\* VoxelTracer::with_storage: the textures' extents.
VoxelSize == <<BlocksPerSide * BLOCK_SIZE, BlocksPerSide * BLOCK_SIZE>>
DiffSize == <<VoxelSize[1] \div BLOCK_SIZE, VoxelSize[2] \div BLOCK_SIZE>>
Cells == (0..(VoxelSize[1] - 1)) \X (0..(VoxelSize[2] - 1))
Blocks == (0..(DiffSize[1] - 1)) \X (0..(DiffSize[2] - 1))
Offsets == (0..(BLOCK_SIZE - 1)) \X (0..(BLOCK_SIZE - 1))

\* impl Block for u64: a block is the integer whose bit x + y * SIZE stands
\* for the cell at offset (x, y).
BitOf(offset) == 2 ^ (offset[1] + offset[2] * BLOCK_SIZE)
BlockEmpty == 0
BlockIsEmpty(block) == block = 0
BlockGet(block, offset) == (block \div BitOf(offset)) % 2 = 1

\* A plausible slip: the row stride left out of the bit number.
BlockSetNoStride(block, offset) ==
    IF (block \div (2 ^ (offset[1] + offset[2]))) % 2 = 1 THEN block
    ELSE block + 2 ^ (offset[1] + offset[2])

BlockSet(block, offset) ==
    IF (block \div BitOf(offset)) % 2 = 1 THEN block ELSE block + BitOf(offset)

\* compute_diff for the block of one dispatch id.
AxisNeighbours(cell) ==
    {<<cell[1] + 1, cell[2]>>, <<cell[1] - 1, cell[2]>>,
     <<cell[1], cell[2] + 1>>, <<cell[1], cell[2] - 1>>} \cap Cells

CellDiffers(grid, cell) ==
    \E n \in AxisNeighbours(cell) :
        \/ grid[cell].emission # grid[n].emission
        \/ grid[cell].opacity # grid[n].opacity

\* The loops over dx and dy, with k = dx * SIZE + dy cells done.
RECURSIVE ComputeDiffUpTo(_, _, _)
ComputeDiffUpTo(grid, b, k) ==
    IF k = 0 THEN BlockEmpty
    ELSE IF CellDiffers(grid, <<b[1] * BLOCK_SIZE + ((k - 1) \div BLOCK_SIZE),
                               b[2] * BLOCK_SIZE + ((k - 1) % BLOCK_SIZE)>>)
    THEN BlockSet(ComputeDiffUpTo(grid, b, k - 1),
                  <<(k - 1) \div BLOCK_SIZE, (k - 1) % BLOCK_SIZE>>)
    ELSE ComputeDiffUpTo(grid, b, k - 1)

ComputeDiffBlock(grid, b) == ComputeDiffUpTo(grid, b, BLOCK_SIZE * BLOCK_SIZE)

\* Comparisons, min and max of f32: false on NaN, and min and max return
\* the operand that is a number.
RNaN == <<0, 0>>
FLt(a, b) ==
    IF a = RNaN \/ b = RNaN THEN FALSE
    ELSE IF a[2] = 0 /\ b[2] = 0 THEN a[1] < b[1]
    ELSE a[1] * b[2] < b[1] * a[2]
FLe(a, b) ==
    IF a = RNaN \/ b = RNaN THEN FALSE
    ELSE IF a[2] = 0 /\ b[2] = 0 THEN a[1] <= b[1]
    ELSE a[1] * b[2] <= b[1] * a[2]
FMin(a, b) == IF a = RNaN THEN b ELSE IF b = RNaN THEN a ELSE IF FLt(b, a) THEN b ELSE a
FMax(a, b) == IF a = RNaN THEN b ELSE IF b = RNaN THEN a ELSE IF FLt(a, b) THEN b ELSE a

\* utils::aabb_intersect: <<tmin, tmax>>.
AabbIntersect(start, inv_dir, aabb_min, aabb_max) ==
    <<FMax(FMin(RMul(RSub(aabb_min[1], start[1]), inv_dir[1]),
                RMul(RSub(aabb_max[1], start[1]), inv_dir[1])),
           FMin(RMul(RSub(aabb_min[2], start[2]), inv_dir[2]),
                RMul(RSub(aabb_max[2], start[2]), inv_dir[2]))),
      FMin(FMax(RMul(RSub(aabb_min[1], start[1]), inv_dir[1]),
                RMul(RSub(aabb_max[1], start[1]), inv_dir[1])),
           FMax(RMul(RSub(aabb_min[2], start[2]), inv_dir[2]),
                RMul(RSub(aabb_max[2], start[2]), inv_dir[2])))>>

InvDir(ray_dir) ==
    <<RDiv(ROne, RAdd(ray_dir[1], F32Epsilon)), RDiv(ROne, RAdd(ray_dir[2], F32Epsilon))>>

RAbs(a) == <<Abs(a[1]), a[2]>>
DeltaDist(ray_dir) == <<RAbs(InvDir(ray_dir)[1]), RAbs(InvDir(ray_dir)[2])>>
BlockDeltaDist(ray_dir) == V2Scale(RInt(BLOCK_SIZE), DeltaDist(ray_dir))

\* signum of a component; zero is what the build makes signum(0.0).
Signum(a, zero) == IF a[1] > 0 THEN 1 ELSE IF a[1] < 0 THEN -1 ELSE zero
Sign2(ray_dir, zero) == <<Signum(ray_dir[1], zero), Signum(ray_dir[2], zero)>>

\* The ray's interval inside the grid, 0.1 in from its edges.
Interval(start, ray_dir) ==
    AabbIntersect(start, InvDir(ray_dir), <<Rat(1, 10), Rat(1, 10)>>,
                  <<RSub(RInt(VoxelSize[1]), Rat(1, 10)),
                    RSub(RInt(VoxelSize[2]), Rat(1, 10))>>)

StartT(start, ray_dir, ray_interval) ==
    FMax(Interval(start, ray_dir)[1], ray_interval[1])

RayStart(start, ray_dir, ray_interval) ==
    V2Add(start, V2Scale(StartT(start, ray_dir, ray_interval), ray_dir))

EndT(start, ray_dir, ray_interval) ==
    RSub(FMin(Interval(start, ray_dir)[2], ray_interval[2]),
         StartT(start, ray_dir, ray_interval))

Floor2(p) == <<RFloor(p[1]), RFloor(p[2])>>

\* (signum * (pos - ray_start) + signum * 0.5 + 0.5) * delta, where a cell
\* is size units wide.
SideDistOf(p, origin, sign, delta) ==
    <<RMul(RAdd(RAdd(RMul(RInt(sign[1]), RSub(RInt(p[1]), origin[1])),
                     RMul(RInt(sign[1]), RHalf)), RHalf), delta[1]),
      RMul(RAdd(RAdd(RMul(RInt(sign[2]), RSub(RInt(p[2]), origin[2])),
                     RMul(RInt(sign[2]), RHalf)), RHalf), delta[2])>>

ReduceMin(v) == FMin(v[1], v[2])

\* side_dist <= side_dist.yx
StepMask(side_dist) ==
    <<FLe(side_dist[1], side_dist[2]), FLe(side_dist[2], side_dist[1])>>

\* v + mask.select(d, 0), for rationals and for integers.
AddMasked(v, mask, d) ==
    <<IF mask[1] THEN RAdd(v[1], d[1]) ELSE v[1],
      IF mask[2] THEN RAdd(v[2], d[2]) ELSE v[2]>>
StepMasked(p, mask, step) ==
    <<IF mask[1] THEN p[1] + step[1] ELSE p[1],
      IF mask[2] THEN p[2] + step[2] ELSE p[2]>>

BlockOf(p) == <<p[1] \div BLOCK_SIZE, p[2] \div BLOCK_SIZE>>
OffsetOf(p) == <<p[1] % BLOCK_SIZE, p[2] % BLOCK_SIZE>>

\* (ray_dir > 0).select(0, SIZE - 1)
BlockOffset(ray_dir) ==
    <<IF ray_dir[1][1] > 0 THEN 0 ELSE BLOCK_SIZE - 1,
      IF ray_dir[2][1] > 0 THEN 0 ELSE BLOCK_SIZE - 1>>

\* (fluence.transmittance < TRANSMITTANCE_CUTOFF).all()
BelowCutoff(fluence) ==
    \A i \in 1..3 : RLt(fluence.transmittance[i], TRANSMITTANCE_CUTOFF)

\* The fine walk: composite the cell the ray is in up to the next grid line.
FineComposite(v) ==
    [v EXCEPT !.fluence =
                  Over(v.fluence,
                       ToFluence(v.grid[v.pos],
                                 RSub(FMin(ReduceMin(v.side_dist), v.end_t), v.last_t))),
              !.last_t = ReduceMin(v.side_dist),
              !.covered = FMin(ReduceMin(v.side_dist), v.end_t),
              !.walked = FMin(ReduceMin(v.side_dist), v.end_t)]

\* The fine walk: step to the next cell.
FineAdvance(v) ==
    [v EXCEPT !.side_dist = AddMasked(v.side_dist, StepMask(v.side_dist),
                                      DeltaDist(v.ray_dir)),
              !.pos = StepMasked(v.pos, StepMask(v.side_dist),
                                 Sign2(v.ray_dir, v.zero)),
              !.walked = ReduceMin(v.side_dist), !.landed = FALSE]

\* The fine walk after a composite: cut off, exhausted, or on.
FineAfterComposite(w) ==
    IF BelowCutoff(w.fluence)
    THEN [w EXCEPT !.fluence.transmittance = Splat3(RZero),
                   !.phase = "absorbed", !.exit = "cutoff"]
    ELSE IF FLe(w.end_t, ReduceMin(w.side_dist))
    THEN [w EXCEPT !.phase = "exited", !.exit = "fine"]
    ELSE FineAdvance(w)

\* The fine walk has met a uniform block: the coarse walk is set up.
EnterCoarse(v) ==
    [v EXCEPT !.phase = "coarse",
              !.block_pos = BlockOf(v.pos),
              !.block_side_dist =
                  SideDistOf(BlockOf(v.pos), V2Scale(Rat(1, BLOCK_SIZE), v.ray_start),
                             Sign2(v.ray_dir, v.zero), BlockDeltaDist(v.ray_dir)),
              !.next_t =
                  ReduceMin(SideDistOf(BlockOf(v.pos),
                                       V2Scale(Rat(1, BLOCK_SIZE), v.ray_start),
                                       Sign2(v.ray_dir, v.zero),
                                       BlockDeltaDist(v.ray_dir)))]

\* One iteration of the fine loop.
FineIteration(v) ==
    IF BlockIsEmpty(v.diff[BlockOf(v.pos)]) THEN EnterCoarse(v)
    ELSE IF \/ BlockGet(v.diff[BlockOf(v.pos)], OffsetOf(v.pos))
            \/ FLe(v.end_t, ReduceMin(v.side_dist))
    THEN FineAfterComposite(FineComposite(v))
    ELSE FineAdvance(v)

\* The coarse walk has run out of interval: the rest is one segment.
CoarseFinish(v) ==
    [v EXCEPT !.fluence = Over(v.fluence,
                               ToFluence(v.grid[v.pos], RSub(v.end_t, v.last_t))),
              !.phase = "exited", !.exit = "coarse",
              !.covered = v.end_t, !.walked = v.end_t]

\* The coarse walk: step to the next block; prev_t is the loop's own last_t.
CoarseAdvance(v) ==
    [v EXCEPT !.mask = StepMask(v.block_side_dist),
              !.block_side_dist = AddMasked(v.block_side_dist, StepMask(v.block_side_dist),
                                            BlockDeltaDist(v.ray_dir)),
              !.block_pos = StepMasked(v.block_pos, StepMask(v.block_side_dist),
                                       Sign2(v.ray_dir, v.zero)),
              !.prev_t = v.next_t,
              !.walked = v.next_t,
              !.next_t = ReduceMin(AddMasked(v.block_side_dist,
                                             StepMask(v.block_side_dist),
                                             BlockDeltaDist(v.ray_dir)))]

\* The cell at which the fine walk resumes in a non-uniform block.
LandingPos(w) ==
    <<IF w.mask[1] THEN w.block_pos[1] * BLOCK_SIZE + BlockOffset(w.ray_dir)[1]
      ELSE RFloor(RAdd(RMul(w.prev_t, w.ray_dir[1]), w.ray_start[1])),
      IF w.mask[2] THEN w.block_pos[2] * BLOCK_SIZE + BlockOffset(w.ray_dir)[2]
      ELSE RFloor(RAdd(RMul(w.prev_t, w.ray_dir[2]), w.ray_start[2]))>>

\* The coarse walk has stepped into a non-uniform block: back to the fine
\* walk, unless the landing cell is not of that block.
Land(w) ==
    [w EXCEPT !.pos = LandingPos(w),
              !.side_dist = SideDistOf(LandingPos(w), w.ray_start,
                                       Sign2(w.ray_dir, w.zero), DeltaDist(w.ray_dir)),
              !.phase = IF BlockOf(LandingPos(w)) # w.block_pos THEN "exited" ELSE "fine",
              !.exit = IF BlockOf(LandingPos(w)) # w.block_pos THEN "mismatch" ELSE "none",
              !.landed = TRUE]

CoarseAfterAdvance(w) == IF w.diff_blocks[w.block_pos] THEN Land(w) ELSE w

\* One iteration of the coarse loop.
CoarseIteration(v) ==
    IF FLe(v.end_t, v.next_t) THEN CoarseFinish(v)
    ELSE CoarseAfterAdvance(CoarseAdvance(v))

\* trace up to its loops, on a tracer v that is ready.
TraceEntered(v, start, ray_dir, ray_interval, zero) ==
    IF FLe(EndT(start, ray_dir, ray_interval), Rat(1, 100))
    THEN [v EXCEPT !.phase = "exited", !.exit = "short", !.fluence = FluenceEmpty,
                   !.start = start, !.ray_dir = ray_dir,
                   !.ray_interval = ray_interval, !.zero = zero]
    ELSE [v EXCEPT !.phase = "fine", !.exit = "none", !.fluence = FluenceEmpty,
                   !.start = start, !.ray_dir = ray_dir,
                   !.ray_interval = ray_interval, !.zero = zero,
                   !.ray_start = RayStart(start, ray_dir, ray_interval),
                   !.end_t = EndT(start, ray_dir, ray_interval),
                   !.pos = Floor2(RayStart(start, ray_dir, ray_interval)),
                   !.side_dist =
                       SideDistOf(Floor2(RayStart(start, ray_dir, ray_interval)),
                                  RayStart(start, ray_dir, ray_interval),
                                  Sign2(ray_dir, zero), DeltaDist(ray_dir)),
                   !.last_t = RZero, !.covered = RZero, !.walked = RZero,
                   !.steps = 0, !.landed = FALSE]

(***************************************************************************)
(* Grids, rays and the tracer's steps                                      *)
(***************************************************************************)
Glow == Color(Splat3(ROne), Splat3(RZero))

Haze == Color(Splat3(ROne), Splat3(RInt(2)))
Dense == Color(Splat3(ROne), Splat3(RInt(8)))

\* Grids of zero opacity: dark, glowing throughout, one glowing cell, a
\* glowing half, and a glowing far corner.
ClearGrids ==
    { [c \in Cells |-> ColorEmpty],
      [c \in Cells |-> Glow],
      [c \in Cells |-> IF c = <<1, 1>> THEN Glow ELSE ColorEmpty],
      [c \in Cells |-> IF c[1] >= BLOCK_SIZE THEN Glow ELSE ColorEmpty],
      [c \in Cells |-> IF c = <<VoxelSize[1] - 1, VoxelSize[2] - 1>>
                       THEN Glow ELSE ColorEmpty] }

\* Grids that absorb: haze throughout, one hazy cell at the corner where
\* four blocks meet, and a dense half.
AbsorbingGrids ==
    { [c \in Cells |-> Haze],
      [c \in Cells |-> IF c = <<BLOCK_SIZE, BLOCK_SIZE>> THEN Haze ELSE ColorEmpty],
      [c \in Cells |-> IF c[1] >= BLOCK_SIZE THEN Dense ELSE ColorEmpty] }

VxGrids == ClearGrids \cup AbsorbingGrids

VxStarts ==
    { <<RHalf, RHalf>>, <<Rat(5, 2), Rat(3, 2)>>, <<ROne, ROne>>,
      <<Rat(7, 2), RHalf>>, <<RInt(-1), Rat(3, 2)>>, <<Rat(3, 2), RInt(5)>>,
      <<RHalf, RAdd(Rat(7, 2), F32Epsilon)>>, <<RInt(BLOCK_SIZE), RHalf>> }

\* A component that the tracer's added epsilon brings to x.
Shy(x) == RSub(x, F32Epsilon)

VxDirs ==
    { <<Shy(ROne), RZero>>, <<Shy(RInt(-1)), RZero>>,
      <<RZero, Shy(ROne)>>, <<RZero, Shy(RInt(-1))>>,
      <<Shy(ROne), Shy(RHalf)>>, <<Shy(RInt(-1)), Shy(RHalf)>>,
      <<Shy(RHalf), Shy(RInt(-1))>>, <<Shy(ROne), Shy(ROne)>>,
      <<Shy(RInt(-1)), Shy(RInt(-1))>>, <<Shy(ROne), Shy(RInt(-1))>>,
      <<Shy(RZero), Shy(ROne)>> }

VxIntervals ==
    { <<RZero, RInf>>, <<RZero, ROne>>, <<ROne, RInt(3)>>, <<RZero, Rat(1, 200)>>,
      <<RZero, RInt(3)>>, <<RZero, RInt(2)>> }

\* The rays whose segments have lengths in halves, on which the
\* transmittance of an absorbing cell is computed exactly.
HalfLattice(start, ray_dir, ray_interval) ==
    /\ start \in { <<RHalf, RHalf>>, <<Rat(5, 2), Rat(3, 2)>>, <<Rat(7, 2), RHalf>> }
    /\ ray_dir \in { <<Shy(ROne), RZero>>, <<Shy(RInt(-1)), RZero>>,
                     <<RZero, Shy(ROne)>>, <<RZero, Shy(RInt(-1))>>,
                     <<Shy(ROne), Shy(RHalf)>>, <<Shy(ROne), Shy(ROne)>>,
                     <<Shy(RInt(-1)), Shy(RInt(-1))>> }
    /\ ray_interval \in { <<RZero, RInt(3)>>, <<RZero, RInt(2)>>,
                          <<RZero, Rat(1, 200)>> }
    /\ \/ EndT(start, ray_dir, ray_interval)[2] \in {1, 2}
       \/ FLe(EndT(start, ray_dir, ray_interval), Rat(1, 100))

ZeroOpacity(grid) == \A c \in DOMAIN grid : grid[c].opacity = Splat3(RZero)

VxIdle == [phase |-> "idle"]

\* A tracer as with_storage leaves it (its textures taken to start cleared)
\* over a grid that has been drawn.  exit records why the walk ended,
\* walked the ray parameter the walk has advanced to, covered the ray
\* parameter up to which segments have been composited, and steps the
\* iterations of the two loops so far, followed up to MaxSteps; landed
\* holds from a landing of the coarse walk to the next fine step.
MaxSteps == 4 * (VoxelSize[1] + VoxelSize[2])

VxInit ==
    \E grid \in VxGrids :
        vx = [phase |-> "ready", grid |-> grid,
              diff |-> [b \in Blocks |-> BlockEmpty],
              diff_blocks |-> [b \in Blocks |-> FALSE], rebuilt |-> FALSE,
              start |-> <<RZero, RZero>>, ray_dir |-> <<ROne, RZero>>,
              ray_interval |-> <<RZero, RZero>>, zero |-> 0,
              ray_start |-> <<RZero, RZero>>, end_t |-> RZero,
              pos |-> <<0, 0>>, side_dist |-> <<RZero, RZero>>, last_t |-> RZero,
              fluence |-> FluenceEmpty, block_pos |-> <<0, 0>>,
              block_side_dist |-> <<RZero, RZero>>, next_t |-> RZero,
              prev_t |-> RZero, mask |-> <<FALSE, FALSE>>, exit |-> "none",
              covered |-> RZero, walked |-> RZero, steps |-> 0,
              landed |-> FALSE]

\* compute_diff, dispatched over every block.
VxComputeDiff ==
    /\ vx.phase = "ready"
    /\ ~vx.rebuilt
    /\ vx' = [vx EXCEPT !.diff = [b \in Blocks |-> ComputeDiffBlock(vx.grid, b)],
                        !.diff_blocks =
                            [b \in Blocks |->
                                ~BlockIsEmpty(ComputeDiffBlock(vx.grid, b))],
                        !.rebuilt = TRUE]
    /\ UNCHANGED notVx

\* A call of trace, up to its loops.
VxTraceBegin ==
    /\ vx.phase = "ready"
    /\ \E start \in VxStarts, ray_dir \in VxDirs, ray_interval \in VxIntervals :
       \E zero \in {0, 1} :
            /\ ZeroOpacity(vx.grid) \/ HalfLattice(start, ray_dir, ray_interval)
            /\ vx' = TraceEntered(vx, start, ray_dir, ray_interval, zero)
    /\ UNCHANGED notVx

VxFineStep ==
    /\ vx.phase = "fine"
    /\ vx.steps < MaxSteps
    /\ vx' = [FineIteration(vx) EXCEPT !.steps = vx.steps + 1]
    /\ UNCHANGED notVx

VxCoarseStep ==
    /\ vx.phase = "coarse"
    /\ vx.steps < MaxSteps
    /\ vx' = [CoarseIteration(vx) EXCEPT !.steps = vx.steps + 1]
    /\ UNCHANGED notVx

(***************************************************************************)
(* VoxelTracer::new and with_storage over any size                         *)
(***************************************************************************)
MaxSide == 9

CtSizes == (BLOCK_SIZE..MaxSide) \X (BLOCK_SIZE..MaxSide)

CtIdle == [phase |-> "idle"]

CtInit == ct = [phase |-> "new"]

\* The cells the dispatch of compute_diff over the diff texture visits.
DispatchedCells(diff_size) ==
    { <<b[1] * BLOCK_SIZE + o[1], b[2] * BLOCK_SIZE + o[2]>> :
        b \in (0..(diff_size[1] - 1)) \X (0..(diff_size[2] - 1)), o \in Offsets }

\* with_storage: four textures are created and the tracer is returned.
WithStorage(size) ==
    [phase |-> "built", failed |-> FALSE, size |-> size,
     cells |-> (0..(size[1] - 1)) \X (0..(size[2] - 1)),
     diff_size |-> <<size[1] \div BLOCK_SIZE, size[2] \div BLOCK_SIZE>>,
     visited |-> {}]

CtNew ==
    /\ ct.phase = "new"
    /\ \E size \in CtSizes : ct' = WithStorage(size)
    /\ UNCHANGED notCt

\* compute_diff dispatched over the extent of the diff texture.
CtComputeDiff ==
    /\ ct.phase = "built"
    /\ ct' = [ct EXCEPT !.phase = "rebuilt",
                        !.visited = DispatchedCells(ct.diff_size)]
    /\ UNCHANGED notCt

(***************************************************************************)
(* One level of the angle selection, over any weights and draw             *)
(***************************************************************************)
MaxWeight == 2
DrawDen == 4

\* What get_bilinear may return for the four children: not all zero.
SlWeights ==
    { w \in (0..MaxWeight) \X (0..MaxWeight) \X (0..MaxWeight) \X (0..MaxWeight) :
        w[1] + w[2] + w[3] + w[4] > 0 }

\* pcg3df: a multiple of 1 / DrawDen in [0, 1], both ends included.
SlDraws == { Rat(k, DrawDen) : k \in 0..DrawDen }

\* index and bias as the levels before have left them.
SlBefore == { [index |-> 0, bias |-> ROne], [index |-> 1, bias |-> Rat(4, 3)] }

SlIdle == [phase |-> "idle"]

SlInit ==
    \E w \in SlWeights, rand \in SlDraws, sel \in SlBefore :
        sl = [phase |-> "level", sel |-> sel, rand |-> rand,
              raw |-> <<RInt(w[1]), RInt(w[2]), RInt(w[3]), RInt(w[4])>>,
              weights |-> <<RZero, RZero, RZero, RZero>>]

\* The body of the selection loop, after the reads of get_bilinear.
SlSelectLevel ==
    /\ sl.phase = "level"
    /\ sl' = [sl EXCEPT !.phase = "selected",
                        !.weights = Normalized(sl.raw),
                        !.sel = SelectWith(sl.sel, Normalized(sl.raw), sl.rand)]
    /\ UNCHANGED notSl

IdleExcept(g) ==
    /\ (g = "ov" \/ ov = OvIdle)
    /\ (g = "ix" \/ ix = IxIdle)
    /\ (g = "bl" \/ bl = BlIdle)
    /\ (g = "an" \/ an = AnIdle)
    /\ (g = "fr" \/ fr = FrIdle)
    /\ (g = "vx" \/ vx = VxIdle)
    /\ (g = "ct" \/ ct = CtIdle)
    /\ (g = "sl" \/ sl = SlIdle)

InitOver == IdleExcept("ov") /\ OvInit
NextOver == OverLeft \/ OverRight
SpecOver == InitOver /\ [][NextOver]_vars

InitIndex == IdleExcept("ix") /\ IxInit
NextIndex == IndexCall
SpecIndex == InitIndex /\ [][NextIndex]_vars

InitBilinear == IdleExcept("bl") /\ BlInit
NextBilinear == BlAddBilinear \/ BlGetBilinear
SpecBilinear == InitBilinear /\ [][NextBilinear]_vars

InitAnalytic == IdleExcept("an") /\ AnInit
NextAnalytic == AnTraceOnce \/ AnTraceBegin \/ AnTraceLoop
SpecAnalytic == InitAnalytic /\ [][NextAnalytic]_vars

InitFrame == IdleExcept("fr") /\ FrInit
NextFrame ==
    \/ FrameBegin
    \/ TaskSelect
    \/ TaskTrace
    \/ TaskScatter
    \/ TaskDisplay
    \/ IncrementIterations
    \/ CopyStorageDispatch
    \/ DrawDispatch
SpecFrame == InitFrame /\ [][NextFrame]_vars

InitVoxel == IdleExcept("vx") /\ VxInit
NextVoxel == VxComputeDiff \/ VxTraceBegin \/ VxFineStep \/ VxCoarseStep
SpecVoxel == InitVoxel /\ [][NextVoxel]_vars

InitSelect == IdleExcept("sl") /\ SlInit
NextSelect == SlSelectLevel
SpecSelect == InitSelect /\ [][NextSelect]_vars

\* The sum of the weights of children 0..j.
Cumulative(w, j) ==
    IF j = 0 THEN w[1]
    ELSE IF j = 1 THEN RAdd(w[1], w[2])
    ELSE IF j = 2 THEN RAdd(RAdd(w[1], w[2]), w[3])
    ELSE RAdd(RAdd(RAdd(w[1], w[2]), w[3]), w[4])

\* C16: at a level of the angle selection, given the four normalized
\* child weights and a draw r in [0, 1), the selected child j is the first
\* child whose cumulative weight w_0 + ... + w_j is strictly greater than
\* r, and the bias is multiplied by exactly 4 times the normalized weight
\* of the selected child.
C16_FirstChildPastDraw ==
    [][(SlSelectLevel /\ RLt(sl.rand, ROne)) =>
          \E j \in 0..3 :
              /\ sl'.sel.index = sl.sel.index * 4 + j
              /\ RLt(sl.rand, Cumulative(sl'.weights, j))
              /\ \A k \in 0..(j - 1) : ~RLt(sl.rand, Cumulative(sl'.weights, k))
              /\ sl'.sel.bias = RMul(sl.sel.bias, RMul(RInt(4), sl'.weights[j + 1]))]_vars

\* A draw equal to the cumulative weight of child 0 has selected child 1,
\* past a child of weight zero.
C16_Witness ==
    /\ sl.phase = "selected"
    /\ sl.rand = sl.weights[1]
    /\ sl.weights[2] = RZero
    /\ sl.weights[3] # RZero
    /\ sl.sel.index % 4 = 2
    /\ sl.sel.bias # ROne

InitConstruct == IdleExcept("ct") /\ CtInit
NextConstruct == CtNew \/ CtComputeDiff
SpecConstruct == InitConstruct /\ [][NextConstruct]_vars

Divisible(size) == size[1] % BLOCK_SIZE = 0 /\ size[2] % BLOCK_SIZE = 0

\* C12: construction with a size that is not a multiple of the block size
\* fails, and no tracer is produced.
C12_IndivisibleSizeFails ==
    (ct.phase \in {"built", "rebuilt"} /\ ~Divisible(ct.size)) => ct.failed

\* A tracer built over an indivisible size is never left with cells that
\* the rebuild of the cache does not visit.
C12_BlocksCoverCells ==
    ct.phase = "rebuilt" => ct.cells \subseteq ct.visited

VxReturned == vx.phase \in {"exited", "absorbed"}

\* The reference walk: every cell the clipped ray passes through, in order,
\* each composited with its own color over the length of the ray inside it.
RECURSIVE ReferenceFrom(_, _, _, _, _, _, _)
ReferenceFrom(grid, ray_dir, zero, end_t, pos, side_dist, last_t) ==
    IF FLe(end_t, ReduceMin(side_dist))
    THEN ToFluence(grid[pos], RSub(end_t, last_t))
    ELSE Over(ToFluence(grid[pos], RSub(ReduceMin(side_dist), last_t)),
              ReferenceFrom(grid, ray_dir, zero, end_t,
                            StepMasked(pos, StepMask(side_dist), Sign2(ray_dir, zero)),
                            AddMasked(side_dist, StepMask(side_dist), DeltaDist(ray_dir)),
                            ReduceMin(side_dist)))

Reference(grid, start, ray_dir, ray_interval, zero) ==
    IF FLe(EndT(start, ray_dir, ray_interval), Rat(1, 100)) THEN FluenceEmpty
    ELSE ReferenceFrom(grid, ray_dir, zero, EndT(start, ray_dir, ray_interval),
                       Floor2(RayStart(start, ray_dir, ray_interval)),
                       SideDistOf(Floor2(RayStart(start, ray_dir, ray_interval)),
                                  RayStart(start, ray_dir, ray_interval),
                                  Sign2(ray_dir, zero), DeltaDist(ray_dir)),
                       RZero)

\* The directions whose reciprocal, as trace takes it, is a finite number:
\* those for which the side distances of a walk are numbers.
FiniteInvDir(ray_dir) == InvDir(ray_dir)[1][2] # 0 /\ InvDir(ray_dir)[2][2] # 0

\* C13: with the cache rebuilt for the grid, and the cutoff not fired,
\* trace returns the fluence of the reference walk, for every start,
\* direction (exactly diagonal ones included) and interval.  The reference
\* walk is defined where its side distances are numbers.
C13_TraceEqualsReference ==
    (VxReturned /\ vx.rebuilt /\ vx.exit # "cutoff" /\ FiniteInvDir(vx.ray_dir)) =>
        vx.fluence = Reference(vx.grid, vx.start, vx.ray_dir, vx.ray_interval, vx.zero)

\* The same, for the rays that cross no cell corner.
C13_OffCornersTraceEqualsReference ==
    (VxReturned /\ vx.rebuilt /\ vx.exit # "cutoff" /\ FiniteInvDir(vx.ray_dir)
        /\ RAbs(InvDir(vx.ray_dir)[1]) # RAbs(InvDir(vx.ray_dir)[2])) =>
        vx.fluence = Reference(vx.grid, vx.start, vx.ray_dir, vx.ray_interval, vx.zero)

\* C14: whenever trace leaves its walk loops (interval exhausted in the
\* fine or the coarse walk, cutoff, or the block-mismatch safeguard), the
\* segment in progress has been composited: segments have been composited
\* up to the ray parameter the walk has advanced to.
C14_FinalSegmentComposited ==
    (VxReturned /\ vx.exit # "short") => vx.covered = vx.walked

Walking(v) == v.phase \in {"fine", "coarse"}

\* The ray parameter of the next grid line of the walk in progress.
NextLine(v) == IF v.phase = "fine" THEN ReduceMin(v.side_dist) ELSE v.next_t

Advances(v, w) ==
    /\ (v.phase = w.phase) => FLt(NextLine(v), NextLine(w))
    /\ (v.phase = "coarse" /\ w.phase = "fine") => FLt(v.walked, w.walked)
    /\ (v.phase = "fine" /\ w.phase = "coarse") => ~v.landed

\* C15: a call of trace terminates.  Every iteration of the fine loop and
\* of the coarse loop that stays in its loop strictly increases the ray
\* parameter of the next grid line, and the walk does not go from coarse
\* to fine and back without advancing; so, the interval being finite, the
\* walk reaches Exited or Absorbed.
C15_EachStepAdvances ==
    [][(Walking(vx) /\ Walking(vx')) => Advances(vx, vx')]_vars

\* The same, for the directions that trace's reciprocal takes to finite
\* numbers.
C15_FiniteStepsAdvance ==
    [][(Walking(vx) /\ Walking(vx') /\ FiniteInvDir(vx.ray_dir))
          => Advances(vx, vx')]_vars

\* Iterations of a call are bounded by the grid lines of the grid.
C15_FiniteWalkIsShort ==
    FiniteInvDir(vx.ray_dir) => vx.steps < MaxSteps

\* An axis-neighbour inside the grid.
InBoundsNeighbour(c, n) ==
    /\ n \in Cells
    /\ \/ (n[1] = c[1] /\ (n[2] = c[2] + 1 \/ n[2] = c[2] - 1))
       \/ (n[2] = c[2] /\ (n[1] = c[1] + 1 \/ n[1] = c[1] - 1))

\* C11: once compute_diff has run for every block, a cell's bit in its
\* block is set exactly when an in-bounds axis-neighbour differs from it in
\* emission or opacity, and a block's flag in diff_blocks is true exactly
\* when one of its cell bits is set.
C11_DiffMatchesNeighbours ==
    vx.rebuilt =>
        /\ \A c \in Cells :
              BlockGet(vx.diff[BlockOf(c)], OffsetOf(c))
                  <=> \E n \in Cells :
                          /\ InBoundsNeighbour(c, n)
                          /\ vx.grid[n] # vx.grid[c]
        /\ \A b \in Blocks :
              vx.diff_blocks[b] <=> \E o \in Offsets : BlockGet(vx.diff[b], o)

\* The cache rebuilt over the grid with one glowing cell: a block with set
\* and clear bits beside a block that stays uniform.
C11_Witness ==
    /\ vx.rebuilt
    /\ vx.grid[<<1, 1>>] = Glow
    /\ vx.grid[<<0, 0>>] = ColorEmpty
    /\ vx.diff_blocks[<<0, 0>>]
    /\ ~BlockGet(vx.diff[<<0, 0>>], <<0, 0>>)
    /\ BlockGet(vx.diff[<<0, 0>>], <<1, 0>>)
    /\ \E b \in Blocks : ~vx.diff_blocks[b]


\* C8: over a grid whose every cell has zero opacity, whatever the cells
\* emit, trace returns the empty fluence (radiance 0 and transmittance 1 in
\* every channel), for every start, direction and interval, with the
\* acceleration cache rebuilt or still clear.
C8_ZeroOpacityTracesEmpty ==
    (VxReturned /\ ZeroOpacity(vx.grid)) => vx.fluence = FluenceEmpty

\* A walk that has composited glowing cells of a half-glowing grid, after
\* its first segment, and returned at the end of its interval.
C8_Witness ==
    /\ VxReturned
    /\ ZeroOpacity(vx.grid)
    /\ vx.rebuilt
    /\ vx.exit \in {"fine", "coarse"}
    /\ vx.grid[vx.pos] = Glow
    /\ vx.grid[<<0, 0>>] # Glow
    /\ RLt(RZero, vx.last_t)
    /\ vx.fluence = FluenceEmpty

\* C3: while the trace/scatter stage runs, storage is what it was when the
\* stage began; and once every pixel task is done, what each task selected
\* and added is what it would have been had the task run alone on that
\* storage, and each entry of next_storage is its value at the beginning
\* of the stage plus the sum of all the tasks' adds to it, whatever the
\* order the tasks' steps took.
C3_StageOrderIndependent ==
    fr.pc \in {"trace", "copy"} =>
        /\ fr.storage = fr.storage0
        /\ (fr.pc = "copy" \/ AllTasksDone) =>
              /\ \A p \in Pixels :
                    /\ fr.tasks[p].sel =
                          AngleSelection(StorageWith(fr.storage0), fr.salt, p, fr.t)
                    /\ fr.tasks[p].all = TaskAdds(fr.world, p, fr.tasks[p].sel)
              /\ \A e \in DOMAIN fr.next_storage :
                    fr.next_storage[e] = RAdd(fr.next0[e], StageSum(e, 0))

\* A stage has ended in which every task added to one same entry, and that
\* entry has grown.
C3_Witness ==
    /\ fr.pc = "trace"
    /\ AllTasksDone
    /\ \E e \in DOMAIN fr.next_storage :
        /\ fr.next_storage[e] # fr.next0[e]
        /\ \A p \in Pixels :
              \E a \in 1..Len(fr.tasks[p].all) :
                  /\ fr.tasks[p].all[a][1] = e
                  /\ RLt(RZero, fr.tasks[p].all[a][2])

\* C17: for every level i, the angular index used to scatter into next
\* storage at level i is the bucket index that the angle selection had
\* chosen at level i, and so is below level i's angular count
\* base_angles << (i * angular_scale).
C17_ScatterAngleIsSelectedBucket ==
    fr.pc = "copy" =>
        \A p \in Pixels : \A i \in 0..(NumCascades - 1) :
            /\ fr.tasks[p].angles[i + 1] =
                  SelectUpTo(StorageWith(fr.storage0), fr.salt, p, fr.t, i).index
            /\ fr.tasks[p].angles[i + 1] < ShiftL(BASE_ANGLES, i * ANGULAR_SCALE)

\* A stage has ended in which a task scattered with a final index whose
\* buckets at the first and at the last level differ.
C17_Witness ==
    /\ fr.pc = "copy"
    /\ \E p \in Pixels :
          /\ fr.tasks[p].angles[1] # 0
          /\ fr.tasks[p].angles[NumCascades] # fr.tasks[p].angles[1]
          /\ fr.tasks[p].angles[NumCascades] = fr.tasks[p].sel.index

StageStart == fr.pc = "trace" /\ \A p \in Pixels : fr.tasks[p].pc = "ready"

\* C18: every entry of the current storage is strictly positive (1.0 at
\* first, at least 0.01 after a decay step), so the four child weights
\* read at any level of the angle selection never sum to zero, and the
\* bias by which the samples are divided is never zero.
C18_StorageStaysPositive ==
    /\ \A e \in DOMAIN fr.storage :
          /\ RLt(RZero, fr.storage[e])
          /\ RLe(Rat(1, 100), fr.storage[e])
          /\ fr.iterations = 0 => fr.storage[e] = ROne
    /\ \A e \in DOMAIN fr.next_storage : RLe(ROne, fr.next_storage[e])
    /\ \A p \in Pixels : RLt(RZero, fr.tasks[p].sel.bias)
    /\ StageStart =>
          \A p \in Pixels : \A i \in 0..(NumCascades - 1) :
              \A parent \in 0..(ShiftL(1, i * ANGULAR_SCALE) - 1) :
                  RLt(RZero, ReduceSum(ChildWeights(StorageWith(fr.storage),
                                                    PixelCentre(p), i, parent * 4)))

\* A stage starts on a storage that a decay step has written from a next
\* storage that had grown.
C18_Witness ==
    /\ StageStart
    /\ fr.iterations >= 1
    /\ \E e \in DOMAIN fr.storage : RLt(Rat(51, 100), fr.storage[e])
    /\ \E e \in DOMAIN fr.storage : RLt(fr.storage[e], ROne)

\* C19: the decay step writes the current storage only, no step takes
\* anything off an entry of next storage, and after k frames each entry of
\* next storage is its initial 1.0 plus everything the tasks of frames
\* 1..k set out to scatter into it; so it never decreases.
C19_NextStorageOnlyGrows ==
    /\ [][CopyStorageDispatch => fr'.next_storage = fr.next_storage]_vars
    /\ [][\A e \in DOMAIN fr.next_storage :
              RLe(fr.next_storage[e], fr'.next_storage[e])]_vars
    /\ [](fr.pc \in {"copy", "draw", "callback"} =>
              \A e \in DOMAIN fr.next_storage :
                  fr.next_storage[e] = RAdd(ROne, fr.total[e]))

\* Two frames have scattered into one same entry, and the decay steps in
\* between have left it alone.
C19_Witness ==
    /\ fr.pc = "draw"
    /\ fr.iterations = 2
    /\ \E e \in DOMAIN fr.next_storage :
          /\ RLt(fr.next0[e], fr.next_storage[e])
          /\ RLt(ROne, fr.next0[e])
          /\ fr.next_storage[e] = RAdd(ROne, fr.total[e])

(***************************************************************************)
(* The iteration counter and the frames after the last trace pass          *)
(***************************************************************************)
Converged == fr.iterations = MAX_ITERS /\ fr.pc \in {"callback", "draw"}

C5_DivisorCountsSamples ==
    /\ fr.pc = "draw" =>
          /\ fr.iterations >= 1
          /\ \A p \in Pixels : fr.samples[p] = fr.iterations
    /\ (fr.pc = "callback" /\ fr.divisor # 0) =>
          \A p \in Pixels :
              fr.screen[p] = V3DivS(fr.display[p], RInt(fr.samples[p]))

\* A frame drawn from more than one sample, not all of them dark.
C5_Witness ==
    /\ fr.pc = "callback"
    /\ fr.divisor = MAX_ITERS
    /\ \E p \in Pixels : fr.display[p] # Splat3(RZero)
                         /\ fr.screen[p] # fr.display[p]

\* The object whose boundary the last iteration of trace crossed.
AnCrossedObject == an.objects[an.t.hit.object + 1]

AnCrossed == an.phase = "trace" /\ an.t.crossed

\* C6: in trace, after the ray crosses a boundary while leaving an object the
\* medium of the following segment is vacuum (the empty colour, refraction
\* index 1); after an entering crossing it is the entered object's colour and
\* refraction index.
C6_MediumAfterCrossing ==
    AnCrossed =>
        IF an.t.hit.leaving
        THEN an.t.color = ColorEmpty /\ an.t.refr_index = ROne
        ELSE /\ an.t.color = AnCrossedObject.color
             /\ an.t.refr_index = AnCrossedObject.refraction_index

\* The boundary crossings of the call's ray past its start parameter, each
\* <<object index, ray parameter, is an exit>>.
AnCrossings ==
    { x \in UNION { LET o == an.objects[i + 1]
                       c == IntersectCircle(V2Sub(an.pos, o.center), an.dir, o.radius)
                   IN  IF c.hit THEN {<<i, c.min_t, FALSE>>, <<i, c.max_t, TRUE>>}
                       ELSE {} : i \in 0..(Len(an.objects) - 1) } :
        RLt(an.start, x[2]) }

\* C10: trace_once returns, over all objects and both crossings of each, the
\* smallest crossing parameter strictly greater than the start parameter
\* (infinite distance if there is none), with leaving true exactly when the
\* chosen crossing is an exit (an object's entry is chosen before its exit);
\* of two objects with that same parameter the lower-indexed is reported.
C10_TraceOnceNearest ==
    an.phase = "hit" =>
        IF AnCrossings = {} THEN an.t.hit.distance = RInf
        ELSE LET nearest == { x \in AnCrossings :
                                \A y \in AnCrossings : RLe(x[2], y[2]) }
             IN  /\ \A x \in nearest : an.t.hit.distance = x[2]
                 /\ \E x \in nearest : an.t.hit.object = x[1]
                 /\ \A x \in nearest : an.t.hit.object <= x[1]
                 /\ an.t.hit.leaving =
                        (<<an.t.hit.object, an.t.hit.distance, FALSE>> \notin nearest)

\* trace_once was called where the exit of object 0 and the entry of object 1
\* have the same, smallest parameter, and reported the exit of object 0.
C10_Witness ==
    /\ an.phase = "hit"
    /\ \E x \in AnCrossings, y \in AnCrossings :
            /\ x[1] = 0 /\ x[3] /\ y[1] = 1 /\ ~y[3]
            /\ x[2] = y[2] /\ x[2] = an.t.hit.distance
    /\ an.t.hit.object = 0 /\ an.t.hit.leaving

\* C9: trace on a tracer with zero objects returns the empty fluence,
\* final_pos = start + length * direction and final_dir = direction.
C9_NoObjectsTrace ==
    (an.phase = "trace" /\ an.t.done /\ an.objects = <<>>) =>
        /\ an.t.fluence = FluenceEmpty
        /\ an.t.pos = V2Add(an.pos, V2Scale(an.len, an.dir))
        /\ an.t.dir = an.dir

\* trace has returned on a tracer with no objects, for the longest ray, in an
\* oblique direction.
C9_Witness ==
    /\ an.phase = "trace" /\ an.t.done /\ an.objects = <<>>
    /\ an.len = RInt(24)
    /\ an.dir = <<Rat(3, 5), Rat(4, 5)>>
    /\ an.t.pos # an.pos

IxInRange ==
    /\ ix.phase = "indexed"
    /\ ix.pos \in ValidCells(ix.s, ix.cascade)

\* No other triple of the valid range has the offset of the call.
IxOffsetIsUnique ==
    \A c \in 0..(ix.s.num_cascades - 1) :
    \A cell \in ValidCells(ix.s, c) :
    \A a \in 0..(AnglesAt(ix.s, c) - 1) :
        Index(ix.s, c, cell, a) = ix.index
            => c = ix.cascade /\ cell = ix.pos /\ a = ix.angle

\* C1 (as claimed): under any configuration in which every cascade has a probe
\* per axis, index maps distinct (cell, angle) pairs of one cascade's valid
\* range to distinct offsets, and no offset of a cascade is one of another.
C1_IndexInjectiveAnyConfig ==
    IxInRange => IxOffsetIsUnique

\* C1 (amended): the same, for configurations with angular_scale <= 2, where
\* a cascade's angles grow no faster than its cells shrink.
C1_IndexInjective ==
    (IxInRange /\ ix.s.angular_scale <= 2) => IxOffsetIsUnique

\* index was called on the last cell and angle of the coarsest of three
\* cascades of the program's shape (angular_scale 2).
C1_Witness ==
    /\ IxInRange
    /\ ix.s.angular_scale = 2 /\ ix.s.num_cascades = 3
    /\ ix.cascade = 2
    /\ ix.angle = AnglesAt(ix.s, 2) - 1
    /\ ix.index = 3 * CascadeSize(ix.s) - 1

\* C7: for any fluences A, B, C, (A.over(B)).over(C) equals A.over(B.over(C))
\* in both radiance and transmittance.
C7_OverAssociative ==
    (ov.phase = "args" /\ ov.hasLeft /\ ov.hasRight)
        => /\ ov.left.radiance = ov.right.radiance
           /\ ov.left.transmittance = ov.right.transmittance

\* Both groupings have been computed for fluences that attenuate and emit.
C7_Witness ==
    /\ ov.phase = "args" /\ ov.hasLeft /\ ov.hasRight
    /\ ov.a.transmittance = Splat3(RHalf)
    /\ ov.b.radiance # Splat3(RZero)
    /\ ov.c.radiance # Splat3(RZero)
    /\ ov.left.radiance # ov.a.radiance
====
